---- MODULE Spec2Model ----
(***************************************************************************)
(* Authentication and session core of the VNPT Talent Hub backend:         *)
(* login, logout, refresh-token rotation, e-mail verification, the         *)
(* in-memory rate limiter, the audit recorder and the admin user           *)
(* management that shares their tables.                                    *)
(*                                                                         *)
(* Time is counted in seconds.  A request handler is one action unless a   *)
(* claim is about the interleaving of its steps (/auth/refresh), in which  *)
(* case the handler is split at its database round trips.                  *)
(***************************************************************************)
EXTENDS Integers, Sequences, FiniteSets, TLC

VARIABLES
    now,        \* the wall clock (time.time(), datetime.now(timezone.utc)), seconds
    users,      \* table users: id -> row
    nextUserId, \* the users.id sequence
    rtokens,    \* table refresh_tokens: id -> row
    nextToken,  \* serial of the next uuid4 / refresh_tokens.id
    vtokens,    \* table email_verification_tokens: id -> row
    audit,      \* table audit_logs, in insertion order
    store,      \* rate_limit._memory_store: key -> (count, reset_ts)
    access,     \* the access tokens signed so far
    req,        \* the /auth/refresh requests in flight, one per worker slot
    resp        \* what the last finished request answered

vars == <<now, users, nextUserId, rtokens, nextToken, vtokens, audit,
          store, access, req, resp>>

-----------------------------------------------------------------------------
(* Bounds of the model *)

MaxSlack == 1
MaxAudit == 3
MaxAdminAudit == 2
MaxOver == 1
MaxUserId == 3
MaxCreates == 1
MaxVerifyRequests == 2
MaxSkip == 1
MaxLimit == 2
(* refresh-token rows stored by requests whose audit write fails *)
MaxTokens == 2

(* Program constants *)

LOGIN_TIMES == 5
LOGIN_SECONDS == 60
ACCESS_TOKEN_EXPIRE_MINUTES == 15
REFRESH_TOKEN_EXPIRE_DAYS == 7
VERIFICATION_TOKEN_EXPIRE_HOURS == 24
USER_CREATE_TIMES == 10
USER_CREATE_SECONDS == 3600
VERIFY_REQUEST_TIMES == 10
VERIFY_REQUEST_SECONDS == 3600

AccessTTL == ACCESS_TOKEN_EXPIRE_MINUTES * 60
RefreshTTL == REFRESH_TOKEN_EXPIRE_DAYS * 24 * 60 * 60
VerifyTTL == VERIFICATION_TOKEN_EXPIRE_HOURS * 60 * 60

(* NULL of a nullable integer column; ids start at 1 *)
Null == 0
(* NULL of users.last_login_at *)
Never == -1

-----------------------------------------------------------------------------
(* Inputs *)

Passwords == {"Str0ngP@ss1", "WrongPassword"}
IPs == {"10.0.0.1"}
Slots == {1, 2}

LOGIN_PATH == "/api/v1/auth/login"

(* Cookie values: no cookie, or a uuid4 string *)
NoCookie == <<>>
Uuid(n) == <<"uuid4", n>>
(* Set-Cookie of a response: none, a value, or delete_cookie *)
CookieDeleted == <<"deleted">>

(* The signing secret, and a key that is not it *)
SECRET_KEY == "vnpt-talent-hub-secret-key-change-in-production"
OtherKey == "another-key"

(* Response fields that are absent; as a bearer, a string that is no JWT *)
NoAccessToken == [sub |-> "", exp |-> 0, type |-> "none", sig |-> ""]

-----------------------------------------------------------------------------
(* app.core.security *)

get_password_hash(password) == <<"bcrypt", password>>

verify_password(plain_password, hashed_password) ==
    hashed_password = get_password_hash(plain_password)

(* jwt.encode(claims, SECRET_KEY): the claims and the key that signed them *)
create_access_token(sub) ==
    [sub |-> sub, exp |-> now + AccessTTL, type |-> "access", sig |-> SECRET_KEY]

create_refresh_token(sub) ==
    [sub |-> sub, exp |-> now + RefreshTTL, type |-> "refresh", sig |-> SECRET_KEY]

generate_refresh_token_string == Uuid(nextToken)

-----------------------------------------------------------------------------
(* Tables *)

UserIds == DOMAIN users

(* db.query(User).filter(User.email == email).first(); email is unique *)
UserByEmail(email) ==
    IF \E u \in UserIds : users[u].email = email
    THEN CHOOSE u \in UserIds : users[u].email = email
    ELSE Null

(* db.query(RefreshToken).filter(RefreshToken.token == token).first() *)
TokenByString(token) ==
    IF \E t \in DOMAIN rtokens : rtokens[t].token = token
    THEN CHOOSE t \in DOMAIN rtokens : rtokens[t].token = token
    ELSE Null

(* RefreshToken(user_id, token, expires_at), is_revoked defaults to False *)
NewRefreshToken(uid) ==
    [token |-> generate_refresh_token_string, user_id |-> uid,
     expires_at |-> now + RefreshTTL, is_revoked |-> FALSE]

(* no row loaded *)
NoRow == [token |-> NoCookie, user_id |-> Null, expires_at |-> 0, is_revoked |-> FALSE]

(* Seeded fault: is_valid forgets the revoked flag *)
is_valid_unexpired(row) == ~(row.expires_at < now)

(* RefreshToken.is_valid on a loaded row *)
is_valid(row) ==
    IF row.is_revoked THEN FALSE
    ELSE IF row.expires_at < now THEN FALSE
    ELSE TRUE

(* RefreshToken.revoke *)
revoke(row) == [row EXCEPT !.is_revoked = TRUE]

-----------------------------------------------------------------------------
(* app.services.audit_service *)

(* log_event: one row appended, committed *)
log_event(log, action, actor_id, target_type, target_id, details) ==
    Append(log, [id |-> Len(log) + 1, timestamp |-> now, user_id |-> actor_id,
                 action |-> action, target_type |-> target_type,
                 target_id |-> target_id, details |-> details])

log_auth_event(log, action, user_id, email, ip, success) ==
    log_event(log, action, user_id, "", Null,
              [email |-> email, ip |-> ip, success |-> success])

(* Seeded fault: the success event is recorded without its actor *)
log_login_success_anonymous(log, user_id, email, ip) ==
    log_auth_event(log, "auth.login.success", Null, email, ip, TRUE)

log_login_success(log, user_id, email, ip) ==
    log_auth_event(log, "auth.login.success", user_id, email, ip, TRUE)

(* Seeded fault: the failure event drops the attempted address *)
log_login_failure_redacted(log, email, ip) ==
    log_event(log, "auth.login.failure", Null, "", Null,
              [email |-> "", ip |-> ip, success |-> FALSE,
               reason |-> "Invalid credentials"])

log_login_failure(log, email, ip) ==
    log_event(log, "auth.login.failure", Null, "", Null,
              [email |-> email, ip |-> ip, success |-> FALSE,
               reason |-> "Invalid credentials"])

log_logout(log, user_id, email, ip) ==
    log_auth_event(log, "auth.logout", user_id, email, ip, TRUE)

log_token_refresh(log, user_id, email, ip) ==
    log_auth_event(log, "auth.token.refresh", user_id, email, ip, TRUE)

-----------------------------------------------------------------------------
(* app.core.rate_limit: the in-memory limiter *)

RateKey(ip, route) == <<ip, route>>

(* _memory_store.get(key, (0, now + seconds)) *)
LimiterEntry(key, seconds) ==
    IF key \in DOMAIN store THEN store[key]
    ELSE [count |-> 0, reset_ts |-> now + seconds]

(* the entry after this request has been counted *)
LimiterCount(key, seconds) ==
    LET e == LimiterEntry(key, seconds)
        w == IF now > e.reset_ts
             THEN [count |-> 0, reset_ts |-> now + seconds]
             ELSE e
    IN  [w EXCEPT !.count = @ + 1]

(* Seeded fault: the threshold is compared with >= *)
LimiterDenies_early(entry, times) == entry.count >= times

LimiterDenies(entry, times) == entry.count > times

LimiterStore(key, entry) ==
    [k \in DOMAIN store \cup {key} |-> IF k = key THEN entry ELSE store[k]]

Response(op, status, detail, token, cookie) ==
    [op |-> op, status |-> status, detail |-> detail,
     access_token |-> token, set_cookie |-> cookie]

NoResponse == Response("", 0, "", NoAccessToken, NoCookie)

RateLimited(op, entry) ==
    Response(op, 429, <<"Rate limit exceeded", entry.reset_ts - now>>,
             NoAccessToken, NoCookie)

-----------------------------------------------------------------------------
(* app.core.rate_limit: make_rate_limiter.dependency, statement by statement,
   for requests served by concurrent threads.  A request keeps its locals:
   the time it read, its key, and the count and reset_ts it took from the
   store *)

(* lines 60-63: now = time.time(), read before the lock is taken *)
LimiterArrived(ip, route) ==
    [pc |-> "arrived", key |-> RateKey(ip, route), t |-> now, count |-> 0,
     reset_ts |-> 0, status |-> 0]

LimiterArrive(s, ip) ==
    /\ req[s].pc \in {"idle", "done"}
    /\ req' = [req EXCEPT ![s] = LimiterArrived(ip, LOGIN_PATH)]
    /\ UNCHANGED <<now, users, nextUserId, rtokens, nextToken, vtokens, audit,
                   store, access, resp>>

(* Seeded fault: the critical section is entered without the lock *)
LockFree_ignored == TRUE

(* _lock is held by the request that is inside the with block *)
LockFree == \A s \in Slots : req[s].pc \notin {"locked", "read", "written"}

(* line 64: with _lock *)
LimiterLock(s) ==
    /\ req[s].pc = "arrived"
    /\ LockFree
    /\ req' = [req EXCEPT ![s].pc = "locked"]
    /\ UNCHANGED <<now, users, nextUserId, rtokens, nextToken, vtokens, audit,
                   store, access, resp>>

(* lines 65-68: the stored entry, or a new window *)
LimiterGet(s) ==
    LET r == req[s]
        e == IF r.key \in DOMAIN store THEN store[r.key]
             ELSE [count |-> 0, reset_ts |-> r.t + LOGIN_SECONDS]
        w == IF r.t > e.reset_ts
             THEN [count |-> 0, reset_ts |-> r.t + LOGIN_SECONDS]
             ELSE e
    IN  /\ r.pc = "locked"
        /\ req' = [req EXCEPT ![s].pc = "read", ![s].count = w.count,
                              ![s].reset_ts = w.reset_ts]
        /\ UNCHANGED <<now, users, nextUserId, rtokens, nextToken, vtokens,
                       audit, store, access, resp>>

(* lines 69-70: count += 1; _memory_store[key] = (count, reset_ts) *)
LimiterPut(s) ==
    LET r == req[s]
    IN  /\ r.pc = "read"
        /\ r.count + 1 <= LOGIN_TIMES + MaxOver
        /\ store' = LimiterStore(r.key, [count |-> r.count + 1,
                                         reset_ts |-> r.reset_ts])
        /\ req' = [req EXCEPT ![s].pc = "written", ![s].count = r.count + 1]
        /\ UNCHANGED <<now, users, nextUserId, rtokens, nextToken, vtokens,
                       audit, access, resp>>

(* lines 71-73: 429 above the threshold; leaving the block releases the lock *)
LimiterLeave(s) ==
    LET r == req[s]
    IN  /\ r.pc = "written"
        /\ req' = [req EXCEPT ![s].pc = "done",
                              ![s].status = IF LimiterDenies(r, LOGIN_TIMES)
                                            THEN 429 ELSE 200]
        /\ UNCHANGED <<now, users, nextUserId, rtokens, nextToken, vtokens,
                       audit, store, access, resp>>

-----------------------------------------------------------------------------
(* POST /auth/login *)

LoginFailed ==
    Response("login", 401, "Incorrect email or password", NoAccessToken, NoCookie)

(* Seeded fault: an inactive account is answered like a failed credential *)
LoginInactive_generic ==
    Response("login", 401, "Incorrect email or password", NoAccessToken, NoCookie)

LoginInactive ==
    Response("login", 403, "Inactive user", NoAccessToken, NoCookie)

(* Seeded fault: a denied request is recorded as a failed credential attempt *)
LoginDenied_logged(ip, email, entry) ==
    /\ resp' = RateLimited("login", entry)
    /\ audit' = log_login_failure(audit, email, ip)
    /\ UNCHANGED <<users, rtokens, nextToken, access>>

(* the limiter dependency raises 429 before the handler body runs *)
LoginDenied(ip, email, entry) ==
    /\ resp' = RateLimited("login", entry)
    /\ UNCHANGED <<users, rtokens, nextToken, audit, access>>

(* Seeded fault: the active flag is tested before the password *)
Login_active_first(ip, email, password) ==
    LET key == RateKey(ip, LOGIN_PATH)
        entry == LimiterCount(key, LOGIN_SECONDS)
        uid == UserByEmail(email)
    IN  /\ entry.count <= LOGIN_TIMES + MaxOver
        /\ store' = LimiterStore(key, entry)
        /\ IF LimiterDenies(entry, LOGIN_TIMES)
           THEN LoginDenied(ip, email, entry)
           ELSE IF uid # Null /\ ~users[uid].is_active
           THEN /\ resp' = LoginInactive
                /\ UNCHANGED <<users, rtokens, nextToken, audit, access>>
           ELSE IF uid = Null
                   \/ ~verify_password(password, users[uid].hashed_password)
           THEN /\ audit' = log_login_failure(audit, email, ip)
                /\ resp' = LoginFailed
                /\ UNCHANGED <<users, rtokens, nextToken, access>>
           ELSE /\ users' = [users EXCEPT ![uid].last_login_at = now]
                /\ rtokens' = rtokens @@ (nextToken :> NewRefreshToken(uid))
                /\ nextToken' = nextToken + 1
                /\ access' = access \cup {create_access_token(email)}
                /\ audit' = log_login_success(audit, uid, email, ip)
                /\ resp' = Response("login", 200, "", create_access_token(email),
                                    generate_refresh_token_string)
        /\ UNCHANGED <<now, nextUserId, vtokens, req>>

Login(ip, email, password) ==
    LET key == RateKey(ip, LOGIN_PATH)
        entry == LimiterCount(key, LOGIN_SECONDS)
        uid == UserByEmail(email)
    IN  /\ entry.count <= LOGIN_TIMES + MaxOver
        /\ store' = LimiterStore(key, entry)
        /\ IF LimiterDenies(entry, LOGIN_TIMES)
           THEN LoginDenied(ip, email, entry)
           ELSE IF uid = Null
                   \/ ~verify_password(password, users[uid].hashed_password)
           THEN /\ audit' = log_login_failure(audit, email, ip)
                /\ resp' = LoginFailed
                /\ UNCHANGED <<users, rtokens, nextToken, access>>
           ELSE IF ~users[uid].is_active
           THEN /\ resp' = LoginInactive
                /\ UNCHANGED <<users, rtokens, nextToken, audit, access>>
           ELSE /\ users' = [users EXCEPT ![uid].last_login_at = now]
                /\ rtokens' = rtokens @@ (nextToken :> NewRefreshToken(uid))
                /\ nextToken' = nextToken + 1
                /\ access' = access \cup {create_access_token(email)}
                /\ audit' = log_login_success(audit, uid, email, ip)
                /\ resp' = Response("login", 200, "", create_access_token(email),
                                    generate_refresh_token_string)
        /\ UNCHANGED <<now, nextUserId, vtokens, req>>

-----------------------------------------------------------------------------
(* POST /auth/register *)

(* role: Optional[str] left out of the request body *)
NoRole == ""

(* UserCreate.role: Field(default="user"), then role=user_data.role or "user" *)
UserCreateRole(role) == IF role = NoRole THEN "user" ELSE role

(* Column(Enum(UserRole)): a string is bound as the member it equals (UserRole
   is a str enum) or the member of that name; any other string is passed on as
   it is, the column's type (a PostgreSQL enum; audit_logs.details is JSONB)
   has no such label, and the INSERT fails *)
RoleOfString ==
    [n \in {"admin", "manager", "employee", "ADMIN", "MANAGER", "EMPLOYEE"} |->
        IF n \in {"admin", "ADMIN"} THEN "admin"
        ELSE IF n \in {"manager", "MANAGER"} THEN "manager"
        ELSE "employee"]

Register(email, password, role) ==
    LET r == UserCreateRole(role)
    IN  /\ IF UserByEmail(email) # Null
           THEN /\ resp' = Response("register", 400, "Email already registered",
                                    NoAccessToken, NoCookie)
                /\ UNCHANGED <<users, nextUserId>>
           ELSE IF r \notin DOMAIN RoleOfString
           THEN /\ resp' = Response("register", 500, "Internal Server Error",
                                    NoAccessToken, NoCookie)
                /\ UNCHANGED <<users, nextUserId>>
           ELSE /\ nextUserId <= MaxUserId
                /\ users' = users @@ (nextUserId :>
                                [email |-> email,
                                 hashed_password |-> get_password_hash(password),
                                 full_name |-> "New User", role |-> RoleOfString[r],
                                 is_active |-> TRUE, is_verified |-> FALSE,
                                 last_login_at |-> Never])
                /\ nextUserId' = nextUserId + 1
                /\ resp' = Response("register", 201, "", NoAccessToken, NoCookie)
        /\ UNCHANGED <<now, rtokens, nextToken, vtokens, audit, store, access, req>>

-----------------------------------------------------------------------------
(* app.core.security: the bearer token of an authenticated route *)

(* Seeded fault: the type claim is not compared *)
verify_token_untyped(token, token_type) ==
    /\ token.sig = SECRET_KEY
    /\ ~(token.exp < now)

(* verify_token: jwt.decode checks the signature and exp, then the type claim *)
verify_token(token, token_type) ==
    /\ token.sig = SECRET_KEY
    /\ ~(token.exp < now)
    /\ token.type = token_type

(* get_current_user, then get_current_active_user *)
get_current_active_user(token) ==
    IF ~verify_token(token, "access")
    THEN [status |-> 401, detail |-> "Could not validate credentials", uid |-> Null]
    ELSE IF UserByEmail(token.sub) = Null
    THEN [status |-> 401, detail |-> "Could not validate credentials", uid |-> Null]
    ELSE IF ~users[UserByEmail(token.sub)].is_active
    THEN [status |-> 403, detail |-> "Inactive user", uid |-> Null]
    ELSE [status |-> 200, detail |-> "", uid |-> UserByEmail(token.sub)]

(* get_current_active_admin *)
get_current_active_admin(token) ==
    LET a == get_current_active_user(token)
    IN  IF a.status = 200 /\ users[a.uid].role # "admin"
        THEN [status |-> 403, detail |-> "Admin privileges required", uid |-> Null]
        ELSE a

(* The bearer tokens a caller can present: one the server signed, or none *)
Bearers == access \cup {NoAccessToken}

(* The refresh cookies a caller can present: none, a uuid4 the server issued at
   some time, or one it never issued *)
Cookies == {NoCookie, Uuid(0)} \cup {Uuid(n) : n \in 1..(nextToken - 1)}

-----------------------------------------------------------------------------
(* Database sessions of an authenticated request *)

(* get_current_user, by exit path: the sessions it has opened and not closed
   when it returns or raises.  db = SessionLocal() comes first (line 169);
   db.close() (188) follows the query, so the raise for an invalid token (180),
   the raise for a token without subject (184) and a raising query (187) skip
   it *)
CurrentUserSessions(token, lookup_ok) ==
    IF ~verify_token(token, "access") THEN {"SessionLocal"}
    ELSE IF token.sub = "" THEN {"SessionLocal"}
    ELSE IF ~lookup_ok THEN {"SessionLocal"}
    ELSE {}

(* get_db: yield db inside try, db.close() in finally *)
GetDbSessions == {}

(* a route that depends on get_current_active_user and get_db (PUT /auth/me,
   POST /auth/logout), as far as its sessions go *)
AuthenticatedRequest(s, bearer, lookup_ok) ==
    LET a == get_current_active_user(bearer)
    IN  /\ req[s].pc \in {"idle", "done"}
        /\ req' = [req EXCEPT ![s] =
                     [pc |-> "done",
                      open |-> CurrentUserSessions(bearer, lookup_ok)
                               \cup GetDbSessions,
                      status |-> IF ~verify_token(bearer, "access") THEN 401
                                 ELSE IF ~lookup_ok THEN 500
                                 ELSE a.status]]
        /\ UNCHANGED <<now, users, nextUserId, rtokens, nextToken, vtokens,
                       audit, store, access, resp>>

-----------------------------------------------------------------------------
(* GET /auth/me: the body is the caller's row *)

UserResponse(row) == <<row.email, row.full_name, row.role, row.is_active>>

GetMe(bearer) ==
    LET a == get_current_active_user(bearer)
    IN  /\ resp' = IF a.status # 200
                   THEN Response("me", a.status, a.detail, NoAccessToken, NoCookie)
                   ELSE Response("me", 200, UserResponse(users[a.uid]),
                                 NoAccessToken, NoCookie)
        /\ UNCHANGED <<now, users, nextUserId, rtokens, nextToken, vtokens,
                       audit, store, access, req>>

-----------------------------------------------------------------------------
(* PUT /auth/me *)

(* a field the request body leaves out *)
NotGiven == ""

(* current_user after the handler's assignments *)
UserUpdateApplied(row, full_name, password) ==
    [row EXCEPT !.full_name = IF full_name # NotGiven THEN full_name ELSE @,
                !.hashed_password = IF password # NotGiven
                                    THEN get_password_hash(password) ELSE @]

(* The accounts whose instances belong to the handler's session (get_db): the
   handler loads none.  current_user comes from get_current_user, which reads
   it in a session of its own and closes that session before returning, so
   the instance is detached *)
SessionInstances == {}

(* db.commit() writes the changed instances of the session; db.refresh() of an
   instance that is not in the session raises, the request ends 500 *)
UpdateMe(bearer, full_name, password) ==
    LET a == get_current_active_user(bearer)
    IN  /\ IF a.status # 200
           THEN /\ resp' = Response("update_me", a.status, a.detail,
                                    NoAccessToken, NoCookie)
                /\ users' = users
           ELSE LET current_user ==
                        UserUpdateApplied(users[a.uid], full_name, password)
                IN  IF a.uid \in SessionInstances
                    THEN /\ users' = [users EXCEPT ![a.uid] = current_user]
                         /\ resp' = Response("update_me", 200,
                                             UserResponse(current_user),
                                             NoAccessToken, NoCookie)
                    ELSE /\ users' = users
                         /\ resp' = Response("update_me", 500,
                                             "Internal Server Error",
                                             NoAccessToken, NoCookie)
        /\ UNCHANGED <<now, nextUserId, rtokens, nextToken, vtokens,
                       audit, store, access, req>>

-----------------------------------------------------------------------------
(* POST /auth/logout *)

(* Seeded fault: the lookup forgets the owner filter *)
TokenOwnedBy_anyone(cookie, uid) == TokenByString(cookie)

(* db.query(RefreshToken).filter(token == refresh_token, user_id == current_user.id) *)
TokenOwnedBy(cookie, uid) ==
    IF TokenByString(cookie) # Null /\ rtokens[TokenByString(cookie)].user_id = uid
    THEN TokenByString(cookie)
    ELSE Null

LogoutRevoke(cookie, uid) ==
    LET t == IF cookie # NoCookie THEN TokenOwnedBy(cookie, uid) ELSE Null
    IN  IF t # Null /\ ~rtokens[t].is_revoked
        THEN [rtokens EXCEPT ![t] = revoke(@)]
        ELSE rtokens

Logout(bearer, cookie, ip) ==
    LET a == get_current_active_user(bearer)
    IN  /\ IF a.status # 200
           THEN /\ resp' = Response("logout", a.status, a.detail, NoAccessToken, NoCookie)
                /\ UNCHANGED <<rtokens, audit>>
           ELSE /\ rtokens' = LogoutRevoke(cookie, a.uid)
                /\ audit' = log_logout(audit, a.uid, users[a.uid].email, ip)
                /\ resp' = Response("logout", 200, "Successfully logged out",
                                    NoAccessToken, CookieDeleted)
        /\ UNCHANGED <<now, users, nextUserId, nextToken, vtokens, store,
                       access, req>>

-----------------------------------------------------------------------------
(* POST /auth/refresh, split at its database round trips.  A request holds the
   row it loaded: SQLAlchemy does not read it again before the UPDATE. *)

(* the request has answered: its session is closed and its locals are gone *)
RefreshDone(r, status, detail, token, cookie) ==
    [pc |-> "done", cookie |-> r.cookie, ip |-> r.ip, tid |-> Null, row |-> NoRow,
     uid |-> Null, resp |-> Response("refresh", status, detail, token, cookie)]

(* lines 295-310: the cookie, then the lookup by token string *)
RefreshLookup(r, cookie, ip) ==
    LET q == [pc |-> "loaded", cookie |-> cookie, ip |-> ip, tid |-> Null,
              row |-> NoRow, uid |-> Null, resp |-> NoResponse]
    IN  IF cookie = NoCookie
        THEN RefreshDone(q, 401, "Refresh token not found", NoAccessToken, NoCookie)
        ELSE IF TokenByString(cookie) = Null
        THEN RefreshDone(q, 401, "Invalid refresh token", NoAccessToken, NoCookie)
        ELSE [q EXCEPT !.tid = TokenByString(cookie),
                       !.row = rtokens[TokenByString(cookie)]]

RefreshStart(s, cookie, ip) ==
    /\ req[s].pc \in {"idle", "done"}
    /\ req' = [req EXCEPT ![s] = RefreshLookup(@, cookie, ip)]
    /\ UNCHANGED <<now, users, nextUserId, rtokens, nextToken, vtokens,
                   audit, store, access, resp>>

(* Seeded fault: the rejection says which of the two conditions it met *)
RefreshValidate_telling(r) ==
    IF r.row.is_revoked
    THEN RefreshDone(r, 401, "Refresh token revoked", NoAccessToken, NoCookie)
    ELSE IF r.row.expires_at < now
    THEN RefreshDone(r, 401, "Refresh token expired", NoAccessToken, NoCookie)
    ELSE IF r.row.user_id \notin UserIds \/ ~users[r.row.user_id].is_active
    THEN RefreshDone(r, 401, "User not found or inactive", NoAccessToken, NoCookie)
    ELSE [r EXCEPT !.pc = "checked", !.uid = r.row.user_id]

(* lines 312-325: is_valid on the loaded row, then the owner *)
RefreshValidate(r) ==
    IF ~is_valid(r.row)
    THEN RefreshDone(r, 401, "Refresh token expired or revoked", NoAccessToken, NoCookie)
    ELSE IF r.row.user_id \notin UserIds \/ ~users[r.row.user_id].is_active
    THEN RefreshDone(r, 401, "User not found or inactive", NoAccessToken, NoCookie)
    ELSE [r EXCEPT !.pc = "checked", !.uid = r.row.user_id]

(* Seeded fault: a request rejected after its token passed is_valid revokes
   the token *)
RefreshCheck_revoking(s) ==
    /\ req[s].pc = "loaded"
    /\ req' = [req EXCEPT ![s] = RefreshValidate(@)]
    /\ rtokens' = IF /\ is_valid(req[s].row)
                     /\ RefreshValidate(req[s]).pc = "done"
                     /\ req[s].tid \in DOMAIN rtokens
                  THEN [rtokens EXCEPT ![req[s].tid] = revoke(@)]
                  ELSE rtokens
    /\ UNCHANGED <<now, users, nextUserId, nextToken, vtokens,
                   audit, store, access, resp>>

RefreshCheck(s) ==
    /\ req[s].pc = "loaded"
    /\ req' = [req EXCEPT ![s] = RefreshValidate(@)]
    /\ UNCHANGED <<now, users, nextUserId, rtokens, nextToken, vtokens,
                   audit, store, access, resp>>

ServerError(r) ==
    RefreshDone(r, 500, "Internal Server Error", NoAccessToken, NoCookie)

(* lines 327-329: token_record.revoke(); db.commit().  The UPDATE of a row that
   a cascade has deleted meanwhile raises StaleDataError. *)
RefreshRevoke(s) ==
    /\ req[s].pc = "checked"
    /\ IF req[s].tid \in DOMAIN rtokens
       THEN /\ rtokens' = [rtokens EXCEPT ![req[s].tid] = revoke(@)]
            /\ req' = [req EXCEPT ![s].pc = "revoked"]
       ELSE /\ req' = [req EXCEPT ![s] = ServerError(@)]
            /\ UNCHANGED rtokens
    /\ UNCHANGED <<now, users, nextUserId, nextToken, vtokens, audit,
                   store, access, resp>>

(* lines 331-366: the access token from the reloaded user, the new row, the
   cookie, the audit entry.  A deleted user raises ObjectDeletedError. *)
RefreshIssue(s) ==
    LET r == req[s]
    IN  /\ r.pc = "revoked"
        /\ IF r.uid \in UserIds
           THEN /\ rtokens' = rtokens @@ (nextToken :> NewRefreshToken(r.uid))
                /\ nextToken' = nextToken + 1
                /\ access' = access \cup {create_access_token(users[r.uid].email)}
                /\ audit' = log_token_refresh(audit, r.uid, users[r.uid].email, r.ip)
                /\ req' = [req EXCEPT ![s] =
                             RefreshDone(r, 200, "",
                                         create_access_token(users[r.uid].email),
                                         generate_refresh_token_string)]
           ELSE /\ req' = [req EXCEPT ![s] = ServerError(@)]
                /\ UNCHANGED <<rtokens, nextToken, access, audit>>
        /\ UNCHANGED <<now, users, nextUserId, vtokens, store, resp>>

(* lines 329-348: the request fails after a commit and before the next one
   (the worker is killed, the connection is lost, the second commit raises).
   get_db closes the session; what was committed stays *)
RefreshCrash(s) ==
    /\ req[s].pc \in {"loaded", "checked", "revoked"}
    /\ req' = [req EXCEPT ![s] = ServerError(@)]
    /\ UNCHANGED <<now, users, nextUserId, rtokens, nextToken, vtokens, audit,
                   store, access, resp>>

-----------------------------------------------------------------------------
(* The audit write of an authentication request fails: log_event's db.commit()
   raises (the database refuses the INSERT or the connection is lost).  No
   caller catches it, the request ends 500; what the handler committed before
   calling the audit service stays *)

AuditWriteFailed(op) ==
    Response(op, 500, "Internal Server Error", NoAccessToken, NoCookie)

(* login: last_login_at committed at line 110, the refresh-token row at 129,
   log_login_success called at 142 *)
LoginAuditFails(ip, email, password) ==
    LET key == RateKey(ip, LOGIN_PATH)
        entry == LimiterCount(key, LOGIN_SECONDS)
        uid == UserByEmail(email)
    IN  /\ entry.count <= LOGIN_TIMES + MaxOver
        /\ ~LimiterDenies(entry, LOGIN_TIMES)
        /\ uid # Null
        /\ verify_password(password, users[uid].hashed_password)
        /\ users[uid].is_active
        /\ nextToken <= MaxTokens
        /\ store' = LimiterStore(key, entry)
        /\ users' = [users EXCEPT ![uid].last_login_at = now]
        /\ rtokens' = rtokens @@ (nextToken :> NewRefreshToken(uid))
        /\ nextToken' = nextToken + 1
        /\ resp' = AuditWriteFailed("login")
        /\ UNCHANGED <<now, nextUserId, vtokens, audit, access, req>>

(* logout: the revocation committed at line 264, log_logout called at 275 *)
LogoutAuditFails(bearer, cookie, ip) ==
    LET a == get_current_active_user(bearer)
    IN  /\ a.status = 200
        /\ rtokens' = LogoutRevoke(cookie, a.uid)
        /\ resp' = AuditWriteFailed("logout")
        /\ UNCHANGED <<now, users, nextUserId, nextToken, vtokens, audit,
                       store, access, req>>

(* refresh: the new row committed at line 348, log_token_refresh called at 361 *)
RefreshIssueAuditFails(s) ==
    LET r == req[s]
    IN  /\ r.pc = "revoked"
        /\ r.uid \in UserIds
        /\ nextToken <= MaxTokens
        /\ rtokens' = rtokens @@ (nextToken :> NewRefreshToken(r.uid))
        /\ nextToken' = nextToken + 1
        /\ req' = [req EXCEPT ![s] = ServerError(@)]
        /\ UNCHANGED <<now, users, nextUserId, vtokens, audit, store, access,
                       resp>>

-----------------------------------------------------------------------------
(* /users: admin user management *)

USERS_PATH == "/api/v1/users/"
Roles == {"admin", "manager", "employee"}

(* User(...) of create_user_and_employee *)
NewUser(email, password, role) ==
    [email |-> email, hashed_password |-> get_password_hash(password),
     full_name |-> "New User", role |-> role, is_active |-> TRUE,
     is_verified |-> FALSE, last_login_at |-> Never]

log_admin_operation(log, action, admin_id, target_id, changes, ip) ==
    log_event(log, action, admin_id, "User", target_id,
              [changes |-> changes, ip |-> ip])

log_user_created(log, admin_id, new_user_id, email, role, ip) ==
    log_admin_operation(log, "user.create", admin_id, new_user_id,
                        [email |-> email, role |-> role], ip)

log_user_updated(log, admin_id, user_id, changes, ip) ==
    log_admin_operation(log, "user.update", admin_id, user_id, changes, ip)

log_user_deleted(log, admin_id, user_id, email, ip) ==
    log_admin_operation(log, "user.delete", admin_id, user_id, [email |-> email], ip)

AdminResponse(op, status, detail) ==
    Response(op, status, detail, NoAccessToken, NoCookie)

(* POST /users/ *)
CreateUser(bearer, ip, email, password, role) ==
    LET key == RateKey(ip, USERS_PATH)
        entry == LimiterCount(key, USER_CREATE_SECONDS)
        a == get_current_active_admin(bearer)
    IN  /\ entry.count <= MaxCreates
        /\ store' = LimiterStore(key, entry)
        /\ IF LimiterDenies(entry, USER_CREATE_TIMES)
           THEN /\ resp' = RateLimited("create_user", entry)
                /\ UNCHANGED <<users, nextUserId, audit>>
           ELSE IF a.status # 200
           THEN /\ resp' = AdminResponse("create_user", a.status, a.detail)
                /\ UNCHANGED <<users, nextUserId, audit>>
           ELSE IF UserByEmail(email) # Null
           THEN /\ resp' = AdminResponse("create_user", 400, "User already exists")
                /\ UNCHANGED <<users, nextUserId, audit>>
           ELSE IF role \notin Roles
           THEN /\ resp' = AdminResponse("create_user", 400, "Invalid role")
                /\ UNCHANGED <<users, nextUserId, audit>>
           ELSE /\ nextUserId <= MaxUserId
                /\ users' = users @@ (nextUserId :> NewUser(email, password, role))
                /\ nextUserId' = nextUserId + 1
                /\ audit' = log_user_created(audit, a.uid, nextUserId, email, role, ip)
                /\ resp' = AdminResponse("create_user", 201, "")
        /\ UNCHANGED <<now, rtokens, nextToken, vtokens, access, req>>

(* the changes update_user tracks for the audit entry *)
TrackedChanges(row, field, value) ==
    IF field \in {"full_name", "role", "email"} /\ value # row[field]
    THEN [f \in {field} |-> [from |-> row[field], to |-> value]]
    ELSE <<>>

(* PUT /users/{user_id} with one field set *)
UpdateUser(bearer, ip, user_id, field, value) ==
    LET a == get_current_active_admin(bearer)
    IN  /\ IF a.status # 200
           THEN /\ resp' = AdminResponse("update_user", a.status, a.detail)
                /\ UNCHANGED <<users, audit>>
           ELSE IF user_id \notin UserIds
           THEN /\ resp' = AdminResponse("update_user", 404, "User not found")
                /\ UNCHANGED <<users, audit>>
           ELSE IF field = "email" /\ value # users[user_id].email
                   /\ UserByEmail(value) # Null
           THEN /\ resp' = AdminResponse("update_user", 400, "User already exists")
                /\ UNCHANGED <<users, audit>>
           ELSE IF field = "role" /\ value \notin Roles
           THEN /\ resp' = AdminResponse("update_user", 400, "Invalid role")
                /\ UNCHANGED <<users, audit>>
           ELSE /\ users' = IF field = "password"
                            THEN [users EXCEPT ![user_id].hashed_password =
                                                   get_password_hash(value)]
                            ELSE [users EXCEPT ![user_id][field] = value]
                /\ audit' = IF TrackedChanges(users[user_id], field, value) # <<>>
                            THEN log_user_updated(audit, a.uid, user_id,
                                     TrackedChanges(users[user_id], field, value), ip)
                            ELSE audit
                /\ resp' = AdminResponse("update_user", 200, "")
        /\ UNCHANGED <<now, nextUserId, rtokens, nextToken, vtokens, store,
                       access, req>>

(* Seeded fault: the relationship has no delete cascade *)
WithoutOwner_kept(table, user_id) == table

(* DELETE FROM users: refresh and verification tokens cascade, audit_logs.user_id
   is ON DELETE SET NULL *)
WithoutOwner(table, user_id) ==
    [t \in {x \in DOMAIN table : table[x].user_id # user_id} |-> table[t]]

(* Seeded fault: the foreign key cascades instead of nulling *)
ActorCascaded(log, user_id) ==
    SelectSeq(log, LAMBDA e : e.user_id # user_id)

ActorNulled(log, user_id) ==
    [i \in DOMAIN log |-> IF log[i].user_id = user_id
                          THEN [log[i] EXCEPT !.user_id = Null]
                          ELSE log[i]]

(* DELETE /users/{user_id}: the deletion commits, then the audit entry is
   inserted with the caller as actor; the insert violates the foreign key when
   the caller deleted their own row *)
DeleteUser(bearer, ip, user_id) ==
    LET a == get_current_active_admin(bearer)
    IN  /\ IF a.status # 200
           THEN /\ resp' = AdminResponse("delete_user", a.status, a.detail)
                /\ UNCHANGED <<users, rtokens, vtokens, audit>>
           ELSE IF user_id \notin UserIds
           THEN /\ resp' = AdminResponse("delete_user", 404, "User not found")
                /\ UNCHANGED <<users, rtokens, vtokens, audit>>
           ELSE /\ users' = [u \in UserIds \ {user_id} |-> users[u]]
                /\ rtokens' = WithoutOwner(rtokens, user_id)
                /\ vtokens' = WithoutOwner(vtokens, user_id)
                /\ IF a.uid = user_id
                   THEN /\ audit' = ActorNulled(audit, user_id)
                        /\ resp' = AdminResponse("delete_user", 500,
                                                 "Internal Server Error")
                   ELSE /\ audit' = log_user_deleted(ActorNulled(audit, user_id),
                                        a.uid, user_id, users[user_id].email, ip)
                        /\ resp' = AdminResponse("delete_user", 204, "")
        /\ UNCHANGED <<now, nextUserId, nextToken, store, access, req>>

-----------------------------------------------------------------------------
(* GET /audit-logs/ *)

(* no action parameter, or an empty one: if action: *)
NoFilter == ""

(* the ids of the rows the filtered query selects *)
Matching(action) ==
    {i \in DOMAIN audit : action = NoFilter \/ audit[i].action = action}

(* Seeded fault: the rows come back in insertion order *)
Orderings_by_id(ids) ==
    {f \in [1..Cardinality(ids) -> ids] :
        \A i, j \in 1..Cardinality(ids) : i < j => f[i] < f[j]}

(* ORDER BY timestamp DESC: every order of the rows in which no row precedes a
   newer one; rows of one timestamp come in any order *)
Orderings(ids) ==
    {f \in [1..Cardinality(ids) -> ids] :
        /\ \A i, j \in 1..Cardinality(ids) : i # j => f[i] # f[j]
        /\ \A i, j \in 1..Cardinality(ids) :
             i < j => audit[f[i]].timestamp >= audit[f[j]].timestamp}

(* OFFSET skip LIMIT limit *)
Page(f, skip, limit) ==
    LET n == IF Len(f) - skip < 0 THEN 0
             ELSE IF Len(f) - skip > limit THEN limit ELSE Len(f) - skip
    IN  [k \in 1..n |-> audit[f[k + skip]]]

ListAuditLogs(bearer, skip, limit, action) ==
    LET a == get_current_active_admin(bearer)
    IN  /\ IF a.status # 200
           THEN resp' = Response("audit_logs", a.status, a.detail,
                                 NoAccessToken, NoCookie)
           ELSE \E f \in Orderings(Matching(action)) :
                   resp' = Response("audit_logs", 200,
                                    [total |-> Cardinality(Matching(action)),
                                     skip |-> skip, limit |-> limit,
                                     logs |-> Page(f, skip, limit)],
                                    NoAccessToken, NoCookie)
        /\ UNCHANGED <<now, users, nextUserId, rtokens, nextToken, vtokens,
                       audit, store, access, req>>

-----------------------------------------------------------------------------
(* GET /auth/verify *)

VTokenByString(token) ==
    IF \E t \in DOMAIN vtokens : vtokens[t].token = token
    THEN CHOOSE t \in DOMAIN vtokens : vtokens[t].token = token
    ELSE Null

(* lines 185-191: a row that is found and not consumed reaches the expiry test,
   whose datetime.now(datetime.timezone.utc) raises AttributeError (datetime is
   the class here): the request ends 500 and the session is rolled back *)
VerifyOutcome(token) ==
    IF VTokenByString(token) = Null
    THEN Response("verify", 404, "Invalid token", NoAccessToken, NoCookie)
    ELSE IF vtokens[VTokenByString(token)].consumed
    THEN Response("verify", 400, "Token already used", NoAccessToken, NoCookie)
    ELSE Response("verify", 500, "Internal Server Error", NoAccessToken, NoCookie)

VerifyEmail(token) ==
    /\ resp' = VerifyOutcome(token)
    /\ UNCHANGED <<now, users, nextUserId, rtokens, nextToken, vtokens,
                   audit, store, access, req>>

(* POST /auth/verify/request *)

VERIFY_REQUEST_PATH == "/api/v1/auth/verify/request"

(* lines 152-162: an unverified caller gets as far as the DELETE of its
   unconsumed rows, which is not committed, and then the computation of
   expires_at raises AttributeError (datetime.timezone again): the request ends
   500 and closing the session rolls the DELETE back *)
RequestOutcome(a) ==
    IF a.status # 200
    THEN Response("verify_request", a.status, a.detail, NoAccessToken, NoCookie)
    ELSE IF users[a.uid].is_verified
    THEN Response("verify_request", 400, "Email already verified",
                  NoAccessToken, NoCookie)
    ELSE Response("verify_request", 500, "Internal Server Error",
                  NoAccessToken, NoCookie)

RequestEmailVerification(bearer, ip) ==
    LET key == RateKey(ip, VERIFY_REQUEST_PATH)
        entry == LimiterCount(key, VERIFY_REQUEST_SECONDS)
    IN  /\ entry.count <= MaxVerifyRequests
        /\ store' = LimiterStore(key, entry)
        /\ resp' = IF LimiterDenies(entry, VERIFY_REQUEST_TIMES)
                   THEN RateLimited("verify_request", entry)
                   ELSE RequestOutcome(get_current_active_user(bearer))
        /\ UNCHANGED <<now, users, nextUserId, rtokens, nextToken, vtokens,
                       audit, access, req>>

-----------------------------------------------------------------------------
(* The clock *)

Tick(d) ==
    /\ now' = now + d
    /\ UNCHANGED <<users, nextUserId, rtokens, nextToken, vtokens, audit,
                   store, access, req, resp>>

-----------------------------------------------------------------------------
(* The instants at which a run is observed: the start and the end of a period,
   and up to MaxSlack seconds after each *)
Instants(period) == {k : k \in 0..MaxSlack} \cup {period + k : k \in 0..MaxSlack}

-----------------------------------------------------------------------------
(* Initial state: the seeded accounts, nothing issued, nothing logged *)

SeedUser(email, role, active) ==
    [email |-> email, hashed_password |-> get_password_hash("Str0ngP@ss1"),
     full_name |-> "Seeded User", role |-> role, is_active |-> active,
     is_verified |-> FALSE, last_login_at |-> Never]

IdleRequest ==
    [pc |-> "idle", cookie |-> NoCookie, ip |-> "", tid |-> Null, row |-> NoRow,
     uid |-> Null, resp |-> NoResponse]

InitCommon ==
    /\ now = 0
    /\ nextUserId = 3
    /\ rtokens = <<>>
    /\ nextToken = 1
    /\ vtokens = <<>>
    /\ audit = <<>>
    /\ store = <<>>
    /\ access = {}
    /\ req = [s \in Slots |-> IdleRequest]
    /\ resp = NoResponse

SeedUsers ==
    (1 :> SeedUser("admin@vnpt.vn", "admin", TRUE))
    @@ (2 :> SeedUser("user@vnpt.vn", "employee", TRUE))

(* Login and its rate limiter alone, one caller trying one account, active or
   deactivated, and one unknown address; the audit log may take a full window
   of attempts *)
InitLogin ==
    /\ InitCommon
    /\ \E active \in BOOLEAN :
          users = [SeedUsers EXCEPT ![2].is_active = active]

NextLogin ==
    \/ \E ip \in IPs, email \in {"user@vnpt.vn", "new@vnpt.vn"},
          password \in Passwords :
          Login(ip, email, password) /\ Len(audit') <= LOGIN_TIMES
    \/ \E d \in {1, LOGIN_SECONDS} : Tick(d) /\ now' \in Instants(LOGIN_SECONDS)

SpecLogin == InitLogin /\ [][NextLogin]_vars

Init ==
    /\ InitCommon
    /\ users = SeedUsers

(* Rotation: one account logs in and refreshes on two workers at once, while
   the clock runs up to and past the refresh-token lifetime *)
NextRotate ==
    \/ \E ip \in IPs :
          Login(ip, "user@vnpt.vn", "Str0ngP@ss1") /\ Len(audit') <= MaxAudit
    \/ \E s \in Slots, cookie \in Cookies, ip \in IPs : RefreshStart(s, cookie, ip)
    \/ \E s \in Slots : RefreshCheck(s)
    \/ \E s \in Slots : RefreshRevoke(s)
    \/ \E s \in Slots : RefreshIssue(s) /\ Len(audit') <= MaxAudit
    \/ \E d \in {1, RefreshTTL} : Tick(d) /\ now' \in Instants(RefreshTTL)

SpecRotate == Init /\ [][NextRotate]_vars

(* Sessions: one account logs in, refreshes and logs out, one request at a
   time, while the clock runs up to and past the refresh-token lifetime *)
NextSession ==
    \/ \E ip \in IPs :
          Login(ip, "user@vnpt.vn", "Str0ngP@ss1") /\ Len(audit') <= MaxAudit
    \/ \E cookie \in Cookies, ip \in IPs : RefreshStart(1, cookie, ip)
    \/ RefreshCheck(1)
    \/ RefreshRevoke(1)
    \/ RefreshIssue(1) /\ Len(audit') <= MaxAudit
    \/ \E bearer \in Bearers, cookie \in Cookies, ip \in IPs :
          Logout(bearer, cookie, ip) /\ Len(audit') <= MaxAudit
    \/ \E d \in {1, RefreshTTL} : Tick(d) /\ now' \in Instants(RefreshTTL)

SpecSession == Init /\ [][NextSession]_vars

(* Logout: both seeded accounts log in and log out with any cookie *)
NextLogout ==
    \/ \E ip \in IPs, email \in {"admin@vnpt.vn", "user@vnpt.vn"} :
          Login(ip, email, "Str0ngP@ss1") /\ Len(audit') <= MaxAudit
    \/ \E bearer \in Bearers, cookie \in Cookies, ip \in IPs :
          Logout(bearer, cookie, ip) /\ Len(audit') <= MaxAudit
    \/ \E d \in {1, AccessTTL} : Tick(d) /\ now' \in Instants(AccessTTL)

SpecLogout == Init /\ [][NextLogout]_vars

(* Administration: the accounts log in and out and refresh, and an admin
   creates, updates and deletes accounts, their own included.  Callers present
   tokens the server issued. *)
Issued == {Uuid(n) : n \in 1..(nextToken - 1)}

Next ==
    \/ \E ip \in IPs, email \in {"admin@vnpt.vn", "user@vnpt.vn"} :
          Login(ip, email, "Str0ngP@ss1") /\ Len(audit') <= MaxAdminAudit
    \/ \E cookie \in Issued, ip \in IPs : RefreshStart(1, cookie, ip)
    \/ RefreshCheck(1)
    \/ RefreshRevoke(1)
    \/ RefreshIssue(1) /\ Len(audit') <= MaxAdminAudit
    \/ \E bearer \in access, cookie \in Issued \cup {NoCookie}, ip \in IPs :
          Logout(bearer, cookie, ip) /\ Len(audit') <= MaxAdminAudit
    \/ \E bearer \in access, ip \in IPs :
          CreateUser(bearer, ip, "new@vnpt.vn", "Str0ngP@ss1", "employee")
          /\ Len(audit') <= MaxAdminAudit
    \/ \E bearer \in access, ip \in IPs, user_id \in UserIds \ {1} :
          UpdateUser(bearer, ip, user_id, "role", "manager")
          /\ Len(audit') <= MaxAdminAudit
    \/ \E bearer \in access, ip \in IPs, user_id \in UserIds :
          DeleteUser(bearer, ip, user_id) /\ Len(audit') <= MaxAdminAudit
    \/ Tick(1) /\ now' \in Instants(0)

Spec == Init /\ [][Next]_vars

(* The audit listing: logins succeed and fail while the wall clock steps
   forward and back, and the caller of the latest login lists the log with
   and without an action filter, one that is a proper prefix of an action
   and one that differs from an action in case included *)
ActionFilters ==
    {NoFilter, "auth.login.success", "auth.login", "AUTH.LOGIN.SUCCESS"}

(* the access token issued last *)
Newest == {t \in access : \A o \in access : o.exp <= t.exp}

NextAudit ==
    \/ \E ip \in IPs, email \in {"admin@vnpt.vn", "new@vnpt.vn"} :
          Login(ip, email, "Str0ngP@ss1") /\ Len(audit') <= MaxAdminAudit
    \/ \E bearer \in Newest, skip \in 0..MaxSkip, limit \in 1..MaxLimit,
          action \in ActionFilters :
          ListAuditLogs(bearer, skip, limit, action)
    \/ \E d \in {1, -1} : Tick(d) /\ now' \in Instants(0)

SpecAudit == Init /\ [][NextAudit]_vars

(* User management: an admin logs in and creates, updates and deletes accounts,
   their own included; an update sets one of role, active flag and password *)
UpdateInputs ==
    {<<"role", "manager">>, <<"is_active", FALSE>>, <<"password", "N3wP@ssw0rd">>}

NextManage ==
    \/ \E ip \in IPs :
          Login(ip, "admin@vnpt.vn", "Str0ngP@ss1") /\ Len(audit') <= MaxAdminAudit
    \/ \E bearer \in access, ip \in IPs :
          CreateUser(bearer, ip, "new@vnpt.vn", "Str0ngP@ss1", "employee")
          /\ Len(audit') <= MaxAdminAudit
    \/ \E bearer \in access, ip \in IPs, user_id \in 1..MaxUserId, u \in UpdateInputs :
          UpdateUser(bearer, ip, user_id, u[1], u[2])
          /\ Len(audit') <= MaxAdminAudit
    \/ \E bearer \in access, ip \in IPs, user_id \in 1..MaxUserId :
          DeleteUser(bearer, ip, user_id) /\ Len(audit') <= MaxAdminAudit
    \/ Tick(1) /\ now' \in Instants(0)

SpecManage == Init /\ [][NextManage]_vars

(* Account deletion: the table holds two verification rows of the seeded
   accounts, the accounts log in, and an admin deletes accounts, their own
   included *)
InitDelete ==
    /\ now = 0
    /\ users = SeedUsers
    /\ nextUserId = 3
    /\ rtokens = <<>>
    /\ nextToken = 1
    /\ \E owner \in [{1, 2} -> {1, 2}], consumed \in [{1, 2} -> BOOLEAN] :
          vtokens = [i \in {1, 2} |->
                       [token |-> <<"urlsafe", i>>, user_id |-> owner[i],
                        expires_at |-> VerifyTTL, consumed |-> consumed[i]]]
    /\ audit = <<>>
    /\ store = <<>>
    /\ access = {}
    /\ req = [s \in Slots |-> IdleRequest]
    /\ resp = NoResponse

NextDelete ==
    \/ \E ip \in IPs, email \in {"admin@vnpt.vn", "user@vnpt.vn"} :
          Login(ip, email, "Str0ngP@ss1") /\ Len(audit') <= MaxAudit
    \/ \E bearer \in access, ip \in IPs, user_id \in 1..MaxUserId :
          DeleteUser(bearer, ip, user_id) /\ Len(audit') <= MaxAudit
    \/ Tick(1) /\ now' \in Instants(0)

SpecDelete == InitDelete /\ [][NextDelete]_vars

(* Registration: anyone registers the new address or a taken one, with no role
   or with the employee role, and the new account logs in *)
NextRegister ==
    \/ \E email \in {"new@vnpt.vn", "user@vnpt.vn"}, role \in {NoRole, "employee"} :
          Register(email, "Str0ngP@ss1", role)
    \/ \E ip \in IPs, password \in Passwords :
          Login(ip, "new@vnpt.vn", password) /\ Len(audit') <= MaxAudit
    \/ \E d \in {1, AccessTTL} : Tick(d) /\ now' \in Instants(AccessTTL)

SpecRegister == Init /\ [][NextRegister]_vars

(* Bearer tokens: a caller presents to GET /auth/me any JWT, signed with the
   secret or with another key, of either type, expiring at any observed
   instant, while the clock runs up to and past the access-token lifetime *)
TokenInputs ==
    [sub : {"user@vnpt.vn"}, exp : Instants(AccessTTL),
     type : {"access", "refresh"}, sig : {SECRET_KEY, OtherKey}]

NextToken ==
    \/ \E ip \in IPs :
          Login(ip, "user@vnpt.vn", "Str0ngP@ss1") /\ Len(audit') <= MaxAudit
    \/ \E bearer \in TokenInputs \cup access \cup {create_refresh_token("user@vnpt.vn")} :
          GetMe(bearer)
    \/ \E d \in {1, AccessTTL} : Tick(d) /\ now' \in Instants(AccessTTL)

SpecToken == Init /\ [][NextToken]_vars

(* The profile: the employee logs in with the seeded or the new password,
   reads the profile and updates name, password, both or neither *)
ProfileNames == {NotGiven, "Renamed User"}
ProfilePasswords == {NotGiven, "N3wP@ssw0rd"}

NextProfile ==
    \/ \E ip \in IPs, password \in {"Str0ngP@ss1", "N3wP@ssw0rd"} :
          Login(ip, "user@vnpt.vn", password) /\ Len(audit') <= MaxAudit
    \/ \E bearer \in access : GetMe(bearer)
    \/ \E bearer \in access, full_name \in ProfileNames,
          password \in ProfilePasswords :
          UpdateMe(bearer, full_name, password)
    \/ Tick(1) /\ now' \in Instants(0)

SpecProfile == Init /\ [][NextProfile]_vars

(* E-mail verification.  No request of this code base gets as far as storing a
   verification row (POST /auth/verify/request fails before its commit), so the
   rows are the table's content as the handler finds it: up to two rows of the
   seeded accounts, consumed or not, expiring at one of the observed instants.
   An account logs in and requests a verification token. *)
VTokenRows ==
    [token : {<<"urlsafe", 1>>}, user_id : {1, 2}, expires_at : Instants(VerifyTTL),
     consumed : BOOLEAN]

InitVerify ==
    /\ now = 0
    /\ users = SeedUsers
    /\ nextUserId = 3
    /\ rtokens = <<>>
    /\ nextToken = 1
    /\ \E rows \in SUBSET {1} : vtokens \in [rows -> VTokenRows]
    /\ audit = <<>>
    /\ store = <<>>
    /\ access = {}
    /\ req = [s \in Slots |-> IdleRequest]
    /\ resp = NoResponse

NextVerify ==
    \/ \E n \in 0..1 : VerifyEmail(<<"urlsafe", n>>)
    \/ \E ip \in IPs :
          Login(ip, "user@vnpt.vn", "Str0ngP@ss1") /\ Len(audit') <= MaxAudit
    \/ \E bearer \in Bearers, ip \in IPs : RequestEmailVerification(bearer, ip)
    \/ \E d \in {1, VerifyTTL} : Tick(d) /\ now' \in Instants(VerifyTTL)

SpecVerify == InitVerify /\ [][NextVerify]_vars

(* Atomicity of rotation: one account opens one session and refreshes it, one
   request at a time, and a request may fail between two of its steps.  With
   one session and one request at a time the successor of row t is row t + 1 *)
NextAtomic ==
    \/ \E ip \in IPs :
          /\ nextToken = 1
          /\ Login(ip, "user@vnpt.vn", "Str0ngP@ss1")
    \/ \E cookie \in Issued, ip \in IPs : RefreshStart(1, cookie, ip)
    \/ RefreshCheck(1)
    \/ RefreshRevoke(1)
    \/ RefreshIssue(1) /\ Len(audit') <= MaxAudit
    \/ RefreshCrash(1)
    \/ \E d \in {1, RefreshTTL} : Tick(d) /\ now' \in Instants(RefreshTTL)

SpecAtomic == Init /\ [][NextAtomic]_vars

(* Failing audit writes: one account logs in, refreshes and logs out, and the
   audit write of any of these requests may fail *)
NextAuditFail ==
    \/ \E ip \in IPs :
          Login(ip, "user@vnpt.vn", "Str0ngP@ss1") /\ Len(audit') <= MaxAdminAudit
    \/ \E ip \in IPs : LoginAuditFails(ip, "user@vnpt.vn", "Str0ngP@ss1")
    \/ \E cookie \in Issued, ip \in IPs : RefreshStart(1, cookie, ip)
    \/ RefreshCheck(1)
    \/ RefreshRevoke(1)
    \/ RefreshIssue(1) /\ Len(audit') <= MaxAdminAudit
    \/ RefreshIssueAuditFails(1)
    \/ \E bearer \in access, cookie \in Issued, ip \in IPs :
          Logout(bearer, cookie, ip) /\ Len(audit') <= MaxAdminAudit
    \/ \E bearer \in access, cookie \in Issued, ip \in IPs :
          LogoutAuditFails(bearer, cookie, ip)
    \/ Tick(1) /\ now' \in Instants(0)

SpecAuditFail == Init /\ [][NextAuditFail]_vars

(* Rejected refreshes: the employee opens sessions and an admin deactivates or
   deletes the account, while /refresh is called with no cookie, with a cookie
   the server never issued and with issued ones, at the start, at the expiry of
   the first tokens and after it *)
NextReject ==
    \/ \E ip \in IPs, email \in {"admin@vnpt.vn", "user@vnpt.vn"} :
          Login(ip, email, "Str0ngP@ss1") /\ Len(audit') <= MaxAdminAudit
    \/ \E bearer \in access, ip \in IPs :
          UpdateUser(bearer, ip, 2, "is_active", FALSE)
    \/ \E bearer \in access, ip \in IPs :
          DeleteUser(bearer, ip, 2) /\ Len(audit') <= MaxAdminAudit + 1
    \/ \E cookie \in Cookies, ip \in IPs : RefreshStart(1, cookie, ip)
    \/ RefreshCheck(1)
    \/ RefreshRevoke(1)
    \/ RefreshIssue(1) /\ Len(audit') <= MaxAdminAudit
    \/ \E d \in {1, RefreshTTL} :
          Tick(d) /\ now' \in {RefreshTTL, RefreshTTL + 1}

SpecReject == Init /\ [][NextReject]_vars

(* The limiter under concurrency: two threads serve requests of one client for
   one route, while the clock runs up to and past the window *)
NextLimiter ==
    \/ \E s \in Slots, ip \in IPs : LimiterArrive(s, ip)
    \/ \E s \in Slots : LimiterLock(s)
    \/ \E s \in Slots : LimiterGet(s)
    \/ \E s \in Slots : LimiterPut(s)
    \/ \E s \in Slots : LimiterLeave(s)
    \/ \E d \in {1, LOGIN_SECONDS} : Tick(d) /\ now' \in Instants(LOGIN_SECONDS)

SpecLimiter == Init /\ [][NextLimiter]_vars

(* Sessions: the employee logs in and authenticated requests arrive with any
   bearer, issued or not, expired or not, while the database answers or fails *)
NextSessions ==
    \/ \E ip \in IPs :
          Login(ip, "user@vnpt.vn", "Str0ngP@ss1") /\ Len(audit') <= MaxAudit
    \/ \E s \in Slots, bearer \in Bearers \cup TokenInputs,
          lookup_ok \in BOOLEAN :
          AuthenticatedRequest(s, bearer, lookup_ok)
    \/ \E d \in {1, AccessTTL} : Tick(d) /\ now' \in Instants(AccessTTL)

SpecSessions == Init /\ [][NextSessions]_vars

(* Identity: account 2 (user@vnpt.vn) and the admin log in; the admin renames
   or deletes account 2, and anybody registers an account under the address
   that became free.  Only account 2 ever logs in as user@vnpt.vn, so every
   access token with that subject was issued to account 2 *)
NextIdentity ==
    \/ \E ip \in IPs : Login(ip, "admin@vnpt.vn", "Str0ngP@ss1")
                       /\ Len(audit') <= MaxAudit
    \/ \E ip \in IPs :
          /\ UserByEmail("user@vnpt.vn") = 2
          /\ Login(ip, "user@vnpt.vn", "Str0ngP@ss1")
          /\ Len(audit') <= MaxAudit
    \/ \E bearer \in access, ip \in IPs :
          UpdateUser(bearer, ip, 2, "email", "renamed@vnpt.vn")
          /\ Len(audit') <= MaxAudit
    \/ \E bearer \in access, ip \in IPs :
          DeleteUser(bearer, ip, 2) /\ Len(audit') <= MaxAudit
    \/ Register("user@vnpt.vn", "0therP@ss1", "employee")
    \/ \E bearer \in access : GetMe(bearer)
    \/ Tick(1) /\ now' \in Instants(0)

SpecIdentity == Init /\ [][NextIdentity]_vars

(* Self-registration: nobody is logged in; requests register an account with
   no role or with one they choose, written as a value or as a member name *)
RegisterRoles == {NoRole, "employee", "admin", "MANAGER", "superuser"}

NextSelfRegister ==
    \/ \E email \in {"new@vnpt.vn", "other@vnpt.vn", "user@vnpt.vn"},
          role \in RegisterRoles :
          Register(email, "Str0ngP@ss1", role)
    \/ \E ip \in IPs, email \in {"new@vnpt.vn", "other@vnpt.vn"} :
          Login(ip, email, "Str0ngP@ss1") /\ Len(audit') <= MaxAudit
    \/ Tick(1) /\ now' \in Instants(0)

SpecSelfRegister == Init /\ [][NextSelfRegister]_vars

(* Probing: a caller tries the account, active or deactivated, and an address
   that no account has, with the right and with a wrong password *)
NextProbe ==
    \/ \E ip \in IPs, email \in {"user@vnpt.vn", "nobody@vnpt.vn"},
          password \in Passwords :
          Login(ip, email, password) /\ Len(audit') <= MaxAudit
    \/ Tick(1) /\ now' \in Instants(0)

SpecProbe == InitLogin /\ [][NextProbe]_vars

(* Logout against refresh: the employee opens one session, and a logout and a
   /refresh, served by two workers, both present its refresh token *)
NextRace ==
    \/ \E ip \in IPs :
          /\ nextToken = 1
          /\ Login(ip, "user@vnpt.vn", "Str0ngP@ss1")
    \/ \E ip \in IPs : nextToken > 1 /\ RefreshStart(1, Uuid(1), ip)
    \/ RefreshCheck(1)
    \/ RefreshRevoke(1)
    \/ RefreshIssue(1) /\ Len(audit') <= MaxAudit
    \/ \E bearer \in access, ip \in IPs :
          Logout(bearer, Uuid(1), ip) /\ Len(audit') <= MaxAudit
    \/ \E d \in {1, AccessTTL} : Tick(d) /\ now' \in Instants(AccessTTL)

SpecRace == Init /\ [][NextRace]_vars

-----------------------------------------------------------------------------
(* Properties *)

(* C1: every login that the limiter lets through and whose address and password
   match an active account adds exactly one refresh-token row, owned by that
   account and not revoked, leaves the older rows alone, answers 200 with one
   access token for the account and the new token as cookie, and appends exactly
   one audit entry, auth.login.success with the account as actor.
   Checked under SpecLogin. *)
C1_LoginSuccess ==
    [][\A ip \in IPs, email \in {"user@vnpt.vn", "new@vnpt.vn"}, password \in Passwords :
         LET uid == UserByEmail(email)
             entry == LimiterCount(RateKey(ip, LOGIN_PATH), LOGIN_SECONDS)
         IN  ( /\ Login(ip, email, password)
               /\ ~LimiterDenies(entry, LOGIN_TIMES)
               /\ uid # Null
               /\ verify_password(password, users[uid].hashed_password)
               /\ users[uid].is_active )
             => /\ Cardinality(DOMAIN rtokens' \ DOMAIN rtokens) = 1
                /\ \A t \in DOMAIN rtokens : rtokens'[t] = rtokens[t]
                /\ \A t \in DOMAIN rtokens' \ DOMAIN rtokens :
                     /\ rtokens'[t].user_id = uid
                     /\ rtokens'[t].is_revoked = FALSE
                     /\ rtokens'[t].token = resp'.set_cookie
                     /\ \A o \in DOMAIN rtokens : rtokens[o].token # rtokens'[t].token
                /\ resp'.status = 200
                /\ resp'.access_token.type = "access"
                /\ resp'.access_token.sub = email
                /\ access' = access \cup {resp'.access_token}
                /\ Len(audit') = Len(audit) + 1
                /\ SubSeq(audit', 1, Len(audit)) = audit
                /\ audit'[Len(audit')].action = "auth.login.success"
                /\ audit'[Len(audit')].user_id = uid
    ]_vars

(* a login has just succeeded for account 2 *)
C1_Witness ==
    /\ resp.op = "login"
    /\ resp.status = 200
    /\ Len(audit) >= 1
    /\ audit[Len(audit)].action = "auth.login.success"
    /\ audit[Len(audit)].user_id = 2
    /\ \E t \in DOMAIN rtokens :
         rtokens[t].user_id = 2 /\ rtokens[t].token = resp.set_cookie

(* C2: every login that the limiter lets through and whose address matches no
   account, or whose password does not verify, answers 401 with the one message
   "Incorrect email or password" whichever of the two it was, with no access
   token and no cookie, leaves the refresh-token table as it was, and appends
   exactly one audit entry, auth.login.failure with no actor and the attempted
   address in its details.  Checked under SpecLogin. *)
C2_LoginFailure ==
    [][\A ip \in IPs, email \in {"user@vnpt.vn", "new@vnpt.vn"}, password \in Passwords :
         LET uid == UserByEmail(email)
             entry == LimiterCount(RateKey(ip, LOGIN_PATH), LOGIN_SECONDS)
         IN  ( /\ Login(ip, email, password)
               /\ ~LimiterDenies(entry, LOGIN_TIMES)
               /\ \/ uid = Null
                  \/ ~verify_password(password, users[uid].hashed_password) )
             => /\ resp'.status = 401
                /\ resp'.detail = "Incorrect email or password"
                /\ resp'.access_token = NoAccessToken
                /\ resp'.set_cookie = NoCookie
                /\ rtokens' = rtokens
                /\ access' = access
                /\ Len(audit') = Len(audit) + 1
                /\ SubSeq(audit', 1, Len(audit)) = audit
                /\ audit'[Len(audit')].action = "auth.login.failure"
                /\ audit'[Len(audit')].user_id = Null
                /\ audit'[Len(audit')].details.email = email
    ]_vars

(* both kinds of failure have been answered: an unknown address and a wrong
   password for a known one *)
C2_Witness ==
    /\ resp.op = "login"
    /\ resp.status = 401
    /\ rtokens = <<>>
    /\ \E i, j \in DOMAIN audit :
         /\ audit[i].action = "auth.login.failure"
         /\ audit[i].details.email = "new@vnpt.vn"
         /\ audit[j].action = "auth.login.failure"
         /\ audit[j].details.email = "user@vnpt.vn"

(* C3: two /auth/refresh requests that present the same refresh token never
   both succeed: of two finished requests with the same cookie at most one has
   answered 200.  Checked under SpecRotate, where the two requests run on two
   workers that share the database. *)
C3_ExactlyOneSucceeds ==
    \A s, t \in Slots :
        ( /\ s # t
          /\ req[s].pc = "done"
          /\ req[t].pc = "done"
          /\ req[s].cookie # NoCookie
          /\ req[s].cookie = req[t].cookie )
        => ~(req[s].resp.status = 200 /\ req[t].resp.status = 200)

(* C4: revocation is permanent.  No step clears the revoked flag of a row or
   removes a revoked row; a /auth/refresh request loads the row as the table
   holds it, a request that loaded a revoked row ends with 401 and nothing
   else, and only a request that passed the validity check with a non-revoked
   row can answer 200.  Checked under SpecSession, where rows are revoked by
   rotation and by logout. *)
C4_RevocationPermanent ==
    [][/\ \A t \in DOMAIN rtokens :
            rtokens[t].is_revoked
            => (t \in DOMAIN rtokens' /\ rtokens'[t].is_revoked)
       /\ \A s \in Slots :
            /\ (req[s].pc \in {"idle", "done"} /\ req'[s].pc = "loaded")
               => /\ req'[s].tid \in DOMAIN rtokens
                  /\ req'[s].row = rtokens[req'[s].tid]
                  /\ req'[s].row.token = req'[s].cookie
            /\ (req[s].pc = "loaded" /\ req[s].row.is_revoked /\ req'[s] # req[s])
               => (req'[s].pc = "done" /\ req'[s].resp.status = 401)
            /\ req[s].pc \in {"checked", "revoked"} => ~req[s].row.is_revoked
            /\ (req'[s] # req[s] /\ req'[s].pc = "done" /\ req'[s].resp.status = 200)
               => req[s].pc = "revoked"
    ]_vars

(* login, refresh, then a refresh with the original cookie: the token was
   rotated, has not expired, and the request that presented it again got 401 *)
C4_Witness ==
    /\ req[1].pc = "done"
    /\ req[1].cookie = Uuid(1)
    /\ req[1].resp.status = 401
    /\ req[1].resp.detail = "Refresh token expired or revoked"
    /\ 1 \in DOMAIN rtokens
    /\ rtokens[1].is_revoked
    /\ ~(rtokens[1].expires_at < now)
    /\ \E i \in DOMAIN audit : audit[i].action = "auth.token.refresh"

(* C5: a /auth/refresh request whose loaded token has expired and was never
   revoked and one whose loaded token is revoked and has not expired get the
   same response: 401 with the detail "Refresh token expired or revoked", no
   access token and no cookie.  Checked under SpecRotate. *)
C5_SameRejection ==
    [][\A s \in Slots :
         ( /\ req[s].pc = "loaded"
           /\ req'[s] # req[s]
           /\ \/ (~req[s].row.is_revoked /\ req[s].row.expires_at < now)
              \/ (req[s].row.is_revoked /\ ~(req[s].row.expires_at < now)) )
         => /\ req'[s].pc = "done"
            /\ req'[s].resp = [op |-> "refresh", status |-> 401,
                               detail |-> "Refresh token expired or revoked",
                               access_token |-> NoAccessToken,
                               set_cookie |-> NoCookie]
    ]_vars

(* both have been answered: one worker presented an expired, never revoked
   token, the other a revoked, unexpired one, and neither request succeeded *)
C5_Witness ==
    \E s, t \in Slots :
        /\ req[s].pc = "done"
        /\ req[t].pc = "done"
        /\ req[s].resp.status = 401
        /\ req[t].resp.status = 401
        /\ req[s].resp.detail = req[t].resp.detail
        /\ TokenByString(req[s].cookie) # Null
        /\ TokenByString(req[t].cookie) # Null
        /\ ~rtokens[TokenByString(req[s].cookie)].is_revoked
        /\ rtokens[TokenByString(req[s].cookie)].expires_at < now
        /\ rtokens[TokenByString(req[t].cookie)].is_revoked
        /\ ~(rtokens[TokenByString(req[t].cookie)].expires_at < now)

(* C6: consuming a verification token that is unconsumed and unexpired
   succeeds: the request answers 200, the token becomes consumed and the owning
   account becomes verified; and a consumed token is never unconsumed again.
   Checked under SpecVerify. *)
C6_ConsumeOnce ==
    [][/\ \A n \in 0..1 :
            LET t == VTokenByString(<<"urlsafe", n>>)
            IN  ( /\ VerifyEmail(<<"urlsafe", n>>)
                  /\ t # Null
                  /\ ~vtokens[t].consumed
                  /\ ~(vtokens[t].expires_at < now) )
                => /\ resp'.status = 200
                   /\ vtokens'[t].consumed
                   /\ users'[vtokens[t].user_id].is_verified
       /\ \A t \in DOMAIN vtokens :
            vtokens[t].consumed => (t \in DOMAIN vtokens' /\ vtokens'[t].consumed)
    ]_vars

(* C7: the in-memory limiter on /auth/login, 5 requests per 60 s for one
   (client IP, route) key.  A request of a key with no window, or arriving
   after the window's reset time, is allowed and opens a window with count 1
   that resets 60 s later.  A request arriving before the reset time is counted
   in the window, is allowed while fewer than 5 were counted before it and is
   answered 429 otherwise.  An allowed login with a wrong password answers 401.
   Checked under SpecLogin. *)
C7_RateLimiter ==
    [][\A ip \in IPs, email \in {"user@vnpt.vn", "new@vnpt.vn"}, password \in Passwords :
         LET key == RateKey(ip, LOGIN_PATH)
         IN  Login(ip, email, password)
             => /\ (key \notin DOMAIN store \/ now > store[key].reset_ts)
                   => /\ resp'.status # 429
                      /\ store'[key] = [count |-> 1, reset_ts |-> now + LOGIN_SECONDS]
                /\ (key \in DOMAIN store /\ now < store[key].reset_ts)
                   => /\ store'[key] = [store[key] EXCEPT !.count = @ + 1]
                      /\ (resp'.status = 429) <=> (store[key].count >= LOGIN_TIMES)
                /\ (resp'.status # 429 /\ password = "WrongPassword")
                   => resp'.status = 401
    ]_vars

(* five logins with a wrong password were answered 401 and recorded, and the
   sixth in the same window was answered 429 *)
C7_Witness ==
    /\ resp.op = "login"
    /\ resp.status = 429
    /\ Len(audit) = LOGIN_TIMES
    /\ \A i \in DOMAIN audit :
         /\ audit[i].action = "auth.login.failure"
         /\ audit[i].details.email = "user@vnpt.vn"
    /\ store[RateKey("10.0.0.1", LOGIN_PATH)].count = LOGIN_TIMES + 1
    /\ now < store[RateKey("10.0.0.1", LOGIN_PATH)].reset_ts

(* C8: a login answered 429 by the limiter appends nothing to the audit log,
   creates no refresh token, signs no access token and changes no account, its
   last-login timestamp included.  Checked under SpecLogin. *)
C8_DeniedLoginHasNoEffect ==
    [][\A ip \in IPs, email \in {"user@vnpt.vn", "new@vnpt.vn"}, password \in Passwords :
         (Login(ip, email, password) /\ resp'.status = 429)
         => /\ audit' = audit
            /\ rtokens' = rtokens
            /\ users' = users
            /\ access' = access
            /\ resp'.access_token = NoAccessToken
            /\ resp'.set_cookie = NoCookie
    ]_vars

(* a login was denied after the account had logged in earlier in the window *)
C8_Witness ==
    /\ resp.op = "login"
    /\ resp.status = 429
    /\ store[RateKey("10.0.0.1", LOGIN_PATH)].count > LOGIN_TIMES
    /\ users[2].last_login_at # Never
    /\ \E i \in DOMAIN audit : audit[i].action = "auth.login.success"

(* C9 as stated: every recorded audit entry keeps every field, the actor
   included, across every operation.  Checked under Spec. *)
C9_EveryFieldUnchanged ==
    [][/\ Len(audit') >= Len(audit)
       /\ \A i \in DOMAIN audit : audit'[i] = audit[i]
    ]_vars

(* C9: no operation removes or reorders a recorded audit entry or changes its
   timestamp, action, target or details; its actor changes in one case only:
   it becomes null in the step that deletes the account it names, and in that
   step it always does.  Checked under Spec. *)
C9_AuditAppendOnly ==
    [][/\ Len(audit') >= Len(audit)
       /\ \A i \in DOMAIN audit :
            /\ [audit'[i] EXCEPT !.user_id = Null] = [audit[i] EXCEPT !.user_id = Null]
            /\ IF audit[i].user_id \in DOMAIN users
                  /\ audit[i].user_id \notin DOMAIN users'
               THEN audit'[i].user_id = Null
               ELSE audit'[i].user_id = audit[i].user_id
    ]_vars

(* the entry of a successful login outlived its account: it is still there,
   with no actor *)
C9_Witness ==
    \E i \in DOMAIN audit :
        /\ audit[i].action = "auth.login.success"
        /\ audit[i].user_id = Null
        /\ UserByEmail(audit[i].details.email) = Null

(* C10: a logout by an authenticated active caller answers 200 and deletes the
   refresh cookie, appends exactly one audit entry, auth.logout with the caller
   as actor, and changes the refresh-token table in one way at most: the row of
   the presented token, if the caller owns it, is revoked afterwards; every
   other row, and every row when no cookie is presented, is unchanged.
   Checked under SpecLogout. *)
C10_Logout ==
    [][\A bearer \in Bearers, cookie \in Cookies, ip \in IPs :
         LET a == get_current_active_user(bearer)
         IN  (Logout(bearer, cookie, ip) /\ a.status = 200)
             => /\ resp'.status = 200
                /\ resp'.set_cookie = CookieDeleted
                /\ Len(audit') = Len(audit) + 1
                /\ SubSeq(audit', 1, Len(audit)) = audit
                /\ audit'[Len(audit')].action = "auth.logout"
                /\ audit'[Len(audit')].user_id = a.uid
                /\ DOMAIN rtokens' = DOMAIN rtokens
                /\ \A t \in DOMAIN rtokens :
                     IF rtokens[t].token = cookie /\ rtokens[t].user_id = a.uid
                     THEN rtokens'[t] = [rtokens[t] EXCEPT !.is_revoked = TRUE]
                     ELSE rtokens'[t] = rtokens[t]
    ]_vars

(* account 2 has just logged out and its token is revoked, while the token of
   account 1 is still valid *)
C10_Witness ==
    /\ resp.op = "logout"
    /\ resp.status = 200
    /\ resp.set_cookie = CookieDeleted
    /\ Len(audit) >= 1
    /\ audit[Len(audit)].action = "auth.logout"
    /\ audit[Len(audit)].user_id = 2
    /\ \E t, o \in DOMAIN rtokens :
         /\ rtokens[t].user_id = 2
         /\ rtokens[t].is_revoked
         /\ rtokens[o].user_id = 1
         /\ ~rtokens[o].is_revoked

(* C11: GET /auth/me, through get_current_user, answers 401 "Could not validate
   credentials" to every bearer token whose signature was not made with the
   secret, whose exp has passed, or whose type claim is not "access", a token
   minted by create_refresh_token included; a request that gets past
   get_current_user presented a token signed with the secret, not expired and
   of type "access".  Checked under SpecToken. *)
C11_AccessTokenVerification ==
    [][\A bearer \in TokenInputs \cup access \cup {create_refresh_token("user@vnpt.vn")} :
         GetMe(bearer)
         => /\ ( \/ bearer.sig # SECRET_KEY
                 \/ bearer.exp < now
                 \/ bearer.type # "access" )
               => /\ resp'.status = 401
                  /\ resp'.detail = "Could not validate credentials"
            /\ resp'.status # 401
               => /\ bearer.sig = SECRET_KEY
                  /\ ~(bearer.exp < now)
                  /\ bearer.type = "access"
    ]_vars

(* the clock is past the lifetime of the access token of a login at time 0,
   which is still on record, and the last request was answered 401 *)
C11_Witness ==
    /\ resp.op = "me"
    /\ resp.status = 401
    /\ \E t \in access : t.exp < now
    /\ now > AccessTTL

(* C12: a POST /auth/register that names no role, for an address no account
   has, answers 201 and creates the account with the role employee.
   Checked under SpecRegister. *)
C12_RegisterDefaultRole ==
    [][\A email \in {"new@vnpt.vn", "user@vnpt.vn"} :
         (Register(email, "Str0ngP@ss1", NoRole) /\ UserByEmail(email) = Null)
         => /\ resp'.status = 201
            /\ \E u \in DOMAIN users' \ DOMAIN users :
                 /\ users'[u].email = email
                 /\ users'[u].role = "employee"
    ]_vars

(* C13: a login that the limiter lets through, with the right password of an
   inactive account, answers 403 with the message "Inactive user", which is not
   the message of a credential failure, carries no access token and no cookie,
   and leaves the refresh-token table and every account row, the last-login
   timestamp included, as they were.  Checked under SpecLogin. *)
C13_InactiveLogin ==
    [][\A ip \in IPs, email \in {"user@vnpt.vn", "new@vnpt.vn"}, password \in Passwords :
         LET uid == UserByEmail(email)
             entry == LimiterCount(RateKey(ip, LOGIN_PATH), LOGIN_SECONDS)
         IN  ( /\ Login(ip, email, password)
               /\ ~LimiterDenies(entry, LOGIN_TIMES)
               /\ uid # Null
               /\ verify_password(password, users[uid].hashed_password)
               /\ ~users[uid].is_active )
             => /\ resp'.status = 403
                /\ resp'.detail = "Inactive user"
                /\ resp'.detail # LoginFailed.detail
                /\ resp'.access_token = NoAccessToken
                /\ resp'.set_cookie = NoCookie
                /\ rtokens' = rtokens
                /\ users' = users
                /\ access' = access
    ]_vars

(* the deactivated account has just been refused, and has never logged in *)
C13_Witness ==
    /\ resp.op = "login"
    /\ resp.status = 403
    /\ ~users[2].is_active
    /\ users[2].last_login_at = Never
    /\ rtokens = <<>>

(* C14: any two /auth/refresh requests that presented a cookie and were
   rejected with 401 because the token was unknown, expired or revoked got the
   same message.  Checked under SpecRotate, where the owner of every token
   exists and is active, so that these are the only rejections of a request
   with a cookie. *)
C14_UniformRejection ==
    \A s, t \in Slots :
        ( /\ req[s].pc = "done"
          /\ req[t].pc = "done"
          /\ req[s].cookie # NoCookie
          /\ req[t].cookie # NoCookie
          /\ req[s].resp.status = 401
          /\ req[t].resp.status = 401 )
        => req[s].resp.detail = req[t].resp.detail

(* C15: GET /auth/verify answers 404 when no row has the token, 400 "Token
   already used" when the row is consumed, expired or not, and 400 "Token
   expired" when the row is not consumed and has expired.
   Checked under SpecVerify. *)
C15_VerifyPrecedence ==
    [][\A n \in 0..1 :
         LET t == VTokenByString(<<"urlsafe", n>>)
         IN  VerifyEmail(<<"urlsafe", n>>)
             => /\ t = Null => resp'.status = 404
                /\ (t # Null /\ vtokens[t].consumed)
                   => (resp'.status = 400 /\ resp'.detail = "Token already used")
                /\ (t # Null /\ ~vtokens[t].consumed /\ vtokens[t].expires_at < now)
                   => (resp'.status = 400 /\ resp'.detail = "Token expired")
    ]_vars

(* C16: a POST /auth/verify/request by an authenticated, active, unverified
   account that the limiter lets through answers 201, removes the account's
   unconsumed verification rows and stores exactly one new unconsumed row for
   it that expires 24 hours later, so that the account then has exactly one
   unconsumed row.  Checked under SpecVerify. *)
C16_RequestIssuesOneToken ==
    [][\A bearer \in Bearers, ip \in IPs :
         LET a == get_current_active_user(bearer)
             entry == LimiterCount(RateKey(ip, VERIFY_REQUEST_PATH), VERIFY_REQUEST_SECONDS)
         IN  ( /\ RequestEmailVerification(bearer, ip)
               /\ ~LimiterDenies(entry, VERIFY_REQUEST_TIMES)
               /\ a.status = 200
               /\ ~users[a.uid].is_verified )
             => /\ resp'.status = 201
                /\ Cardinality({t \in DOMAIN vtokens' :
                                  /\ vtokens'[t].user_id = a.uid
                                  /\ ~vtokens'[t].consumed}) = 1
                /\ \A t \in DOMAIN vtokens' :
                     (vtokens'[t].user_id = a.uid /\ ~vtokens'[t].consumed)
                     => /\ t \notin DOMAIN vtokens
                        /\ vtokens'[t].expires_at = now + VerifyTTL
    ]_vars

(* C17: a DELETE /users/{id} by an admin that finds the account leaves no
   refresh-token row and no verification row of that account and leaves the
   rows of every other account as they were; it removes no audit entry, and
   every earlier entry is unchanged except that an entry whose actor was the
   deleted account has its actor set to null.  Checked under SpecDelete. *)
C17_DeleteCascade ==
    [][\A bearer \in access, ip \in IPs, user_id \in 1..MaxUserId :
         ( /\ DeleteUser(bearer, ip, user_id)
           /\ get_current_active_admin(bearer).status = 200
           /\ user_id \in UserIds )
         => /\ user_id \notin DOMAIN users'
            /\ \A t \in DOMAIN rtokens :
                 IF rtokens[t].user_id = user_id
                 THEN t \notin DOMAIN rtokens'
                 ELSE t \in DOMAIN rtokens' /\ rtokens'[t] = rtokens[t]
            /\ \A t \in DOMAIN vtokens :
                 IF vtokens[t].user_id = user_id
                 THEN t \notin DOMAIN vtokens'
                 ELSE t \in DOMAIN vtokens' /\ vtokens'[t] = vtokens[t]
            /\ Len(audit') >= Len(audit)
            /\ \A i \in DOMAIN audit :
                 audit'[i] = IF audit[i].user_id = user_id
                             THEN [audit[i] EXCEPT !.user_id = Null]
                             ELSE audit[i]
    ]_vars

(* account 2 had logged in and owned a verification row; it has been deleted:
   its tokens are gone, the admin's token and the audit entry of its login are
   still there, the latter with no actor *)
C17_Witness ==
    /\ resp.op = "delete_user"
    /\ resp.status = 204
    /\ 2 \notin UserIds
    /\ nextToken > 2
    /\ \A t \in DOMAIN rtokens : rtokens[t].user_id = 1
    /\ rtokens # <<>>
    /\ DOMAIN vtokens = {1}
    /\ vtokens[1].user_id = 1
    /\ \E i \in DOMAIN audit :
         /\ audit[i].action = "auth.login.success"
         /\ audit[i].details.email = "user@vnpt.vn"
         /\ audit[i].user_id = Null

(* C18: every /users request of an admin that changes the accounts table
   appends exactly one audit entry, with the admin as actor and the affected
   account as target: user.create for a created account, user.update for an
   update that changed the row, user.delete for a deleted account, the admin's
   own included.  Checked under SpecManage. *)
C18_AdminMutationAudited ==
    [][\A bearer \in access :
         LET a == get_current_active_admin(bearer)
             last == audit'[Len(audit')]
         IN  ( /\ a.status = 200
               /\ users' # users
               /\ \/ \E ip \in IPs :
                       CreateUser(bearer, ip, "new@vnpt.vn", "Str0ngP@ss1", "employee")
                  \/ \E ip \in IPs, user_id \in 1..MaxUserId, u \in UpdateInputs :
                       UpdateUser(bearer, ip, user_id, u[1], u[2])
                  \/ \E ip \in IPs, user_id \in 1..MaxUserId :
                       DeleteUser(bearer, ip, user_id) )
             => /\ Len(audit') = Len(audit) + 1
                /\ last.user_id = a.uid
                /\ last.target_type = "User"
                /\ \/ /\ last.action = "user.create"
                      /\ last.target_id \in DOMAIN users' \ DOMAIN users
                   \/ /\ last.action = "user.update"
                      /\ last.target_id \in DOMAIN users
                      /\ users'[last.target_id] # users[last.target_id]
                   \/ /\ last.action = "user.delete"
                      /\ last.target_id \in DOMAIN users \ DOMAIN users'
    ]_vars

(* C19: a GET /audit-logs/ by an admin answers with entries of the log in
   which no entry precedes one of a later timestamp, whatever the order of
   insertion; with an action filter every returned entry has exactly that
   action, and the reported total is the number of entries of the log with
   exactly that action (of all entries without a filter), whatever skip and
   limit are; the page holds distinct entries, as many as remain after skip
   and limit at most.  Checked under SpecAudit. *)
C19_AuditListing ==
    [][(resp'.op = "audit_logs" /\ resp'.status = 200 /\ audit' = audit /\ now' = now)
       => \A bearer \in Newest, action \in ActionFilters :
            ListAuditLogs(bearer, resp'.detail.skip, resp'.detail.limit, action)
            => LET body == resp'.detail
                   hits == {i \in DOMAIN audit :
                              action = NoFilter \/ audit[i].action = action}
               IN  /\ body.total = Cardinality(hits)
                   /\ \A k \in DOMAIN body.logs :
                        /\ \E i \in hits : body.logs[k] = audit[i]
                        /\ action # NoFilter => body.logs[k].action = action
                   /\ \A k, l \in DOMAIN body.logs :
                        /\ k < l => body.logs[k].timestamp >= body.logs[l].timestamp
                        /\ k # l => body.logs[k].id # body.logs[l].id
                   /\ Len(body.logs) =
                        IF Cardinality(hits) - body.skip <= 0 THEN 0
                        ELSE IF Cardinality(hits) - body.skip > body.limit
                        THEN body.limit
                        ELSE Cardinality(hits) - body.skip
    ]_vars

(* the log holds a success inserted after a failure but stamped earlier, and
   the listing filtered by auth.login.success reported one entry of total one *)
C19_Witness ==
    /\ resp.op = "audit_logs"
    /\ resp.status = 200
    /\ resp.detail.total = 1
    /\ Len(resp.detail.logs) = 1
    /\ resp.detail.logs[1].action = "auth.login.success"
    /\ \E i, j \in DOMAIN audit :
         /\ i < j
         /\ audit[i].action = "auth.login.failure"
         /\ audit[j].action = "auth.login.success"
         /\ audit[i].timestamp > audit[j].timestamp

(* C20: a PUT /auth/me of an authenticated active user that gives a new
   full_name or a new password answers 200 and stores the change in that
   account's row: the profile then shows the new name, the new password
   verifies against the stored hash and the old one no longer does.  Checked
   under SpecProfile. *)
C20_ProfileUpdatePersists ==
    [][\A bearer \in access, full_name \in ProfileNames,
          password \in ProfilePasswords :
          (/\ get_current_active_user(bearer).status = 200
           /\ full_name # NotGiven \/ password # NotGiven
           /\ UpdateMe(bearer, full_name, password))
          => LET uid == get_current_active_user(bearer).uid
             IN  /\ resp'.status = 200
                 /\ full_name # NotGiven
                      => UserResponse(users'[uid])[2] = full_name
                 /\ password # NotGiven
                      => /\ verify_password(password, users'[uid].hashed_password)
                         /\ ~verify_password("Str0ngP@ss1",
                                             users'[uid].hashed_password)
    ]_vars

(* C21: rotation is atomic.  In every state, between the steps of a /refresh
   and after a request that failed between them included, a refresh-token row
   that is revoked has its successor row stored: no row is revoked while no
   successor exists.  Checked under SpecAtomic. *)
C21_RotationAtomic ==
    \A t \in DOMAIN rtokens :
        rtokens[t].is_revoked => (t + 1) \in DOMAIN rtokens

(* C22: a login, refresh or logout whose audit write fails stores nothing: no
   refresh-token row is created or revoked and no account row (last_login_at)
   changes.  Checked under SpecAuditFail. *)
C22_AuditFailureRollsBack ==
    [][(\/ \E ip \in IPs : LoginAuditFails(ip, "user@vnpt.vn", "Str0ngP@ss1")
        \/ RefreshIssueAuditFails(1)
        \/ \E bearer \in access, cookie \in Issued, ip \in IPs :
              LogoutAuditFails(bearer, cookie, ip))
       => /\ rtokens' = rtokens
          /\ users' = users
    ]_vars

(* C23: the validation of a loaded refresh-token row lets the request go on iff
   the row is not revoked and its expires_at is strictly greater than the
   current time; a row presented at the instant now = expires_at is answered
   "Refresh token expired or revoked".  Checked under SpecSession. *)
C23_StrictExpiry ==
    [][\A s \in Slots :
          (req[s].pc = "loaded" /\ req'[s] # req[s])
          => LET row == req[s].row
                 accepted == ~row.is_revoked /\ row.expires_at > now
                 refused == /\ req'[s].pc = "done"
                            /\ req'[s].resp.status = 401
                            /\ req'[s].resp.detail = "Refresh token expired or revoked"
             IN  accepted <=> ~refused
    ]_vars

(* C24: a /refresh request answered 401 (no cookie, unknown token, expired or
   revoked token, owner missing or inactive) changes nothing: the
   refresh-token table, the accounts, the audit log and the issued access
   tokens are as before, and the answer carries no cookie and no access token;
   a token that passed validation and whose owner is inactive is still valid
   afterwards.  Checked under SpecReject. *)
C24_RejectionChangesNothing ==
    [][\A s \in Slots :
          (/\ req'[s] # req[s]
           /\ req'[s].pc = "done"
           /\ req'[s].resp.status = 401)
          => /\ rtokens' = rtokens
             /\ nextToken' = nextToken
             /\ users' = users
             /\ audit' = audit
             /\ access' = access
             /\ req'[s].resp.set_cookie = NoCookie
             /\ req'[s].resp.access_token = NoAccessToken
             /\ (/\ req'[s].resp.detail = "User not found or inactive"
                 /\ req[s].tid \in DOMAIN rtokens)
                => is_valid(rtokens'[req[s].tid])
    ]_vars

(* a request was answered "User not found or inactive" for a deactivated owner
   and the token it presented is still stored and valid *)
C24_Witness ==
    \E s \in Slots :
        /\ req[s].pc = "done"
        /\ req[s].resp.status = 401
        /\ req[s].resp.detail = "User not found or inactive"
        /\ TokenByString(req[s].cookie) # Null
        /\ is_valid(rtokens[TokenByString(req[s].cookie)])
        /\ ~users[rtokens[TokenByString(req[s].cookie)].user_id].is_active

(* C25: under every interleaving of requests with one (client IP, route) key,
   no increment of the in-memory counter is lost: the write of a request
   raises the stored count by exactly one (or starts a new window at one), the
   number a request leaves with is the stored count, and a request passes iff
   that number is at most the threshold, so at most LOGIN_TIMES requests of
   one window pass.  Checked under SpecLimiter. *)
C25_NoLostIncrement ==
    [][\A s \in Slots :
          /\ (req[s].pc = "read" /\ req'[s].pc = "written")
             => LET key == req[s].key
                    fresh == \/ key \notin DOMAIN store
                             \/ req[s].t > store[key].reset_ts
                IN  store'[key].count =
                        IF fresh THEN 1 ELSE store[key].count + 1
          /\ (req[s].pc = "written" /\ req'[s].pc = "done")
             => /\ req'[s].count = store[req[s].key].count
                /\ req'[s].status = 200 <=> req'[s].count <= LOGIN_TIMES
    ]_vars

(* one request is inside the critical section with the count above the
   threshold while the other waits for the lock *)
C25_Witness ==
    \E s, u \in Slots :
        /\ req[s].pc = "written"
        /\ req[u].pc = "arrived"
        /\ req[s].count = LOGIN_TIMES + 1

(* C26: when a request has ended, on whatever exit path, every database
   session opened for it is closed, the one get_current_user opens for itself
   included.  Checked under SpecSessions. *)
C26_SessionsClosed ==
    \A s \in Slots : req[s].pc = "done" => req[s].open = {}

(* C27: an access token issued to account 2 never authenticates a request as
   another account: whatever renamings, deletions and registrations happened
   since, the token resolves to account 2 or to none.  Checked under
   SpecIdentity. *)
C27_TokenKeepsItsAccount ==
    \A token \in access :
        token.sub = "user@vnpt.vn"
        => get_current_active_user(token).uid \in {Null, 2}

(* C28: an account created through POST /auth/register has the lowest role,
   whatever role the request carries: no unauthenticated request creates an
   admin or a manager.  The seeded accounts are 1 and 2.  Checked under
   SpecSelfRegister. *)
C28_RegisterLowestRole ==
    \A u \in UserIds \ {1, 2} : users[u].role = "employee"

(* C29: a login for a deactivated account with a wrong password, let through
   by the limiter, is answered like a login for an address no account has:
   401 "Incorrect email or password", never 403, without token or cookie, and
   with the auth.login.failure entry such a login gets (no actor, the attempted
   address, the same reason), and it changes no account and no refresh token.
   Checked under SpecProbe. *)
C29_InactiveNotDisclosed ==
    [][\A ip \in IPs :
         LET entry == LimiterCount(RateKey(ip, LOGIN_PATH), LOGIN_SECONDS)
             unknown == log_login_failure(audit, "nobody@vnpt.vn", ip)
         IN  ( /\ Login(ip, "user@vnpt.vn", "WrongPassword")
               /\ ~LimiterDenies(entry, LOGIN_TIMES)
               /\ ~users[2].is_active )
             => /\ resp'.status = 401
                /\ resp'.detail = "Incorrect email or password"
                /\ resp'.access_token = NoAccessToken
                /\ resp'.set_cookie = NoCookie
                /\ Len(audit') = Len(audit) + 1
                /\ audit'[Len(audit')].action = "auth.login.failure"
                /\ audit'[Len(audit')] =
                      [unknown[Len(unknown)] EXCEPT
                          !.details.email = "user@vnpt.vn"]
                /\ users' = users
                /\ rtokens' = rtokens
    ]_vars

(* the deactivated account was tried with a wrong password and the attempt was
   answered 401 and logged as a failure *)
C29_Witness ==
    /\ ~users[2].is_active
    /\ resp.op = "login"
    /\ resp.status = 401
    /\ Len(audit) > 0
    /\ audit[Len(audit)].action = "auth.login.failure"
    /\ audit[Len(audit)].details.email = "user@vnpt.vn"

(* C30: once a logout that presented refresh token T has answered and the
   /refresh that was in flight with T has finished, neither T nor the token
   that /refresh issued is valid.  T is the token of the session's login; a
   /refresh that issues its token after the logout answered had loaded T before
   the logout revoked it.  Checked under SpecRace. *)
C30_LogoutEndsSession ==
    [][(/\ resp.op = "logout"
        /\ resp.status = 200
        /\ req[1].pc = "revoked"
        /\ req[1].cookie = Uuid(1)
        /\ req'[1].pc = "done"
        /\ req'[1].resp.status = 200)
       => /\ ~is_valid(rtokens'[TokenByString(Uuid(1))])
          /\ \A t \in DOMAIN rtokens' :
                rtokens'[t].token = req'[1].resp.set_cookie
                => ~is_valid(rtokens'[t])
    ]_vars

====
